---------------------------- MODULE Spec2Model ----------------------------
(***************************************************************************)
(* The sliding-window stomata scan of LeafToLabelStomata.ipynb.            *)
(*                                                                         *)
(* The notebook loads a micrograph, fixes a patch size and a step, derives *)
(* the number of shifts per axis, announces a window count, and then runs  *)
(* a double loop that cuts one patch per window position, normalises it,   *)
(* asks the classifier for a score and keeps the window centre when the    *)
(* score is above the threshold.                                           *)
(*                                                                         *)
(* Conventions.  Python indices are 0-based, TLA+ sequences 1-based: the   *)
(* pixel image[i, j, c] of the notebook is image[i+1][j+1][c+1] here.      *)
(* A float32 value is kept as the exact fraction [num, den]: astype turns  *)
(* the 8-bit integer v into v/1 and "patch /= 255" multiplies den by 255.  *)
(* The classifier (a trained network) is opaque: every call returns any of *)
(* the score levels.  Scores are in hundredths, so threshold 0.7 is 70.    *)
(***************************************************************************)
EXTENDS Integers, Sequences, FiniteSets

VARIABLES
    image,          \* the micrograph: rows of columns of channel tuples
    patch_size,     \* P
    shift,          \* S
    no_x_shifts,    \* set by the "number of slides" cell
    no_y_shifts,
    announced,      \* the window count that cell prints
    stomata,        \* the detection list
    offset,         \* patch_size // 2
    x, y,           \* the loop indices
    patch,          \* the patch last handed to the classifier
    y_model,        \* the score last returned
    calls,          \* history: one record per classifier call, in call order
    pc              \* "shifts", "start", "scan", "done"

vars == <<image, patch_size, shift, no_x_shifts, no_y_shifts, announced,
          stomata, offset, x, y, patch, y_model, calls, pc>>

---------------------------------------------------------------------------
(* Bounds of the explored inputs. *)

MaxPatch == 3

MaxShift == 2

MaxExtra == 3

MaxRowShifts == 1

MaxColShifts == 1

(* Program constants. *)

threshold == 70

NChannels == 3

MaxPixel == 255

Min(a, b) == IF a < b THEN a ELSE b

Max(a, b) == IF a > b THEN a ELSE b

---------------------------------------------------------------------------
(* Inputs. *)

PixelValue(i, j, c) ==
    (((i - 1) * 3 + (j - 1) * 5 + (c - 1)) * 51) % (MaxPixel + 1)

SyntheticImage(h, w) ==
    [i \in 1..h |-> [j \in 1..w |-> [c \in 1..NChannels |-> PixelValue(i, j, c)]]]

(* images up to MaxExtra pixels larger than the patch on each axis, and as *)
(* many of them as keep the number of shifts per axis within the bounds;  *)
(* images smaller than the patch are included                             *)
SmallConfigs ==
    { c \in [H : 1..(MaxPatch + MaxExtra), W : 1..(MaxPatch + MaxExtra),
             P : 1..MaxPatch, S : 1..MaxShift] :
        /\ c.H <= c.P + MaxExtra
        /\ c.W <= c.P + MaxExtra
        /\ (c.H - c.P) \div c.S <= MaxRowShifts
        /\ (c.W - c.P) \div c.S <= MaxColShifts }

Scenario240 == [H |-> 240, W |-> 240, P |-> 120, S |-> 120]

InputConfigs == SmallConfigs \cup {Scenario240}

Scores == {threshold - 1, threshold, threshold + 1}

---------------------------------------------------------------------------
(* The notebook's expressions. *)

Shape0(img) == Len(img)

Shape1(img) == Len(img[1])

NoShiftsFromDim(dim, P, S) == dim \div S

NoShiftsTruncating(dim, P, S) ==
    IF dim >= P THEN (dim - P) \div S ELSE 0 - ((P - dim) \div S)

NoShifts(dim, P, S) == (dim - P) \div S

AnnouncedCount(nx, ny) == nx * ny

OffsetFull(P) == P

Offset(P) == P \div 2

arange(n) == 0 .. (n - 1)

XRangeExclusive == arange(no_x_shifts)

XRangeOneMore == arange(no_x_shifts + 2)

XRange == arange(no_x_shifts + 1)

YRangeExclusive == arange(no_y_shifts)

YRange == arange(no_y_shifts + 1)

Center(i, S, off) == i * S + off

(* numpy's basic slice a:b over an axis of length n *)
SliceIndex(k, n) == IF k < 0 THEN Max(k + n, 0) ELSE Min(k, n)

SliceLen(a, b, n) == Max(SliceIndex(b, n) - SliceIndex(a, n), 0)

Slice(img, r0, r1, c0, c1) ==
    LET rows == SubSeq(img, SliceIndex(r0, Shape0(img)) + 1, SliceIndex(r1, Shape0(img)))
    IN  [r \in 1..Len(rows) |->
            SubSeq(rows[r], SliceIndex(c0, Len(rows[r])) + 1, SliceIndex(c1, Len(rows[r])))]

AsTypeFloat32(p) ==
    [r \in 1..Len(p) |-> [c \in 1..Len(p[r]) |->
        [ch \in 1..Len(p[r][c]) |-> [num |-> p[r][c][ch], den |-> 1]]]]

DivideBy(p, d) ==
    [r \in 1..Len(p) |-> [c \in 1..Len(p[r]) |->
        [ch \in 1..Len(p[r][c]) |-> [num |-> p[r][c][ch].num, den |-> p[r][c][ch].den * d]]]]

NormalizeNoDivide(view) == AsTypeFloat32(view)

Normalize(view) == DivideBy(AsTypeFloat32(view), MaxPixel)

DetectInclusive(score) == score >= threshold

Detect(score) == score > threshold

PrependDetection(list, c) == <<c>> \o list

AppendDetection(list, c) == Append(list, c)

---------------------------------------------------------------------------
(* The cells. *)

InitFrom(configs) ==
    \E cfg \in configs :
        /\ image = SyntheticImage(cfg.H, cfg.W)
        /\ patch_size = cfg.P
        /\ shift = cfg.S
        /\ no_x_shifts = 0
        /\ no_y_shifts = 0
        /\ announced = 0
        /\ stomata = <<>>
        /\ offset = 0
        /\ x = 0
        /\ y = 0
        /\ patch = <<>>
        /\ y_model = 0
        /\ calls = <<>>
        /\ pc = "shifts"

Init == InitFrom(InputConfigs)

InitBounded == InitFrom(SmallConfigs)

(* no_x_shifts = ..., no_y_shifts = ..., print(...) *)
ComputeShifts ==
    /\ pc = "shifts"
    /\ no_x_shifts' = NoShifts(Shape0(image), patch_size, shift)
    /\ no_y_shifts' = NoShifts(Shape1(image), patch_size, shift)
    /\ announced' = AnnouncedCount(NoShifts(Shape0(image), patch_size, shift),
                                   NoShifts(Shape1(image), patch_size, shift))
    /\ pc' = "start"
    /\ UNCHANGED <<image, patch_size, shift, stomata, offset, x, y, patch, y_model, calls>>

(* stomata = [], offset = patch_size // 2, and the entry into the two loops *)
StartScan ==
    /\ pc = "start"
    /\ stomata' = <<>>
    /\ offset' = Offset(patch_size)
    /\ IF XRange # {} /\ YRange # {}
         THEN /\ x' = 0
              /\ y' = 0
              /\ pc' = "scan"
         ELSE /\ x' = IF XRange # {} THEN no_x_shifts ELSE x
              /\ y' = y
              /\ pc' = "done"
    /\ UNCHANGED <<image, patch_size, shift, no_x_shifts, no_y_shifts, announced,
                   patch, y_model, calls>>

(* one pass through the body of the inner loop, and the step to the next index pair *)
ScanWindow ==
    /\ pc = "scan"
    /\ \E score \in Scores :
        LET x_c == Center(x, shift, offset)
            y_c == Center(y, shift, offset)
            view == Slice(image, x_c - offset, x_c + offset, y_c - offset, y_c + offset)
        IN  /\ patch' = Normalize(view)
            /\ y_model' = score
            /\ stomata' = IF Detect(score)
                            THEN AppendDetection(stomata, <<x_c, y_c>>)
                            ELSE stomata
            /\ calls' = Append(calls,
                               [x |-> x, y |-> y, x_c |-> x_c, y_c |-> y_c,
                                rows |-> SliceLen(x_c - offset, x_c + offset, Shape0(image)),
                                cols |-> SliceLen(y_c - offset, y_c + offset, Shape1(image)),
                                score |-> score])
    /\ IF y + 1 \in YRange
         THEN /\ y' = y + 1
              /\ x' = x
              /\ pc' = "scan"
         ELSE IF x + 1 \in XRange
                THEN /\ x' = x + 1
                     /\ y' = 0
                     /\ pc' = "scan"
                ELSE /\ x' = x
                     /\ y' = y
                     /\ pc' = "done"
    /\ UNCHANGED <<image, patch_size, shift, no_x_shifts, no_y_shifts, announced, offset>>

Next == ComputeShifts \/ StartScan \/ ScanWindow

Spec == Init /\ [][Next]_vars

(* The notebook runs its cells one after the other, single-threaded: a cell *)
(* or loop pass that can run does run.  Checked over the bounded inputs.    *)
FairSpec == InitBounded /\ [][Next]_vars /\ WF_vars(Next)

---------------------------------------------------------------------------
(* Shorthands used by the properties. *)

H == Shape0(image)

W == Shape1(image)

P == patch_size

S == shift

ShiftsKnown == pc \in {"start", "scan", "done"}

Scanning == pc \in {"scan", "done"}

FitsImage == H >= P /\ W >= P


AllCalls == 1..Len(calls)

LastCall == calls[Len(calls)]

(* the centres of the calls whose score is strictly above the threshold, in call order *)
RECURSIVE CentersAbove(_)
CentersAbove(cs) ==
    IF cs = <<>> THEN <<>>
    ELSE LET rest == CentersAbove(SubSeq(cs, 1, Len(cs) - 1))
             last == cs[Len(cs)]
         IN  IF last.score > threshold
               THEN Append(rest, <<last.x_c, last.y_c>>)
               ELSE rest

LexLess(a, b) == a.x < b.x \/ (a.x = b.x /\ a.y < b.y)

(* the place in the call history of the window with centre c *)
CallIndexOf(c) == CHOOSE i \in AllCalls : <<calls[i].x_c, calls[i].y_c>> = c

Overruns(call) == call.x_c + (P \div 2) > H \/ call.y_c + (P \div 2) > W

---------------------------------------------------------------------------
(* C1: when the scan of an image with H >= P and W >= P has finished, the  *)
(* number of windows extracted and classified is                           *)
(* (floor((H-P)/S) + 1) * (floor((W-P)/S) + 1).                            *)
C1_WindowCount ==
    (pc = "done" /\ FitsImage) =>
        Len(calls) = (((H - P) \div S) + 1) * (((W - P) \div S) + 1)

C1_Witness ==
    /\ pc = "done"
    /\ FitsImage
    /\ (H - P) % S # 0
    /\ Len(calls) >= 4

(* C2 as stated: every computed centre has P/2 <= x_c <= H - P/2 and       *)
(* P/2 <= y_c <= W - P/2 with P/2 the exact half (compared doubled).       *)
C2_ExactHalfBounds ==
    (Scanning /\ FitsImage) =>
        \A i \in AllCalls :
            /\ P <= 2 * calls[i].x_c /\ 2 * calls[i].x_c <= 2 * H - P
            /\ P <= 2 * calls[i].y_c /\ 2 * calls[i].y_c <= 2 * W - P

(* C2 amended: every computed centre has floor(P/2) <= x_c <= H - P/2 and  *)
(* floor(P/2) <= y_c <= W - P/2: the lower bound is the floored half, the  *)
(* upper bound the exact half.                                             *)
C2_FlooredHalfBounds ==
    (Scanning /\ FitsImage) =>
        \A i \in AllCalls :
            /\ P \div 2 <= calls[i].x_c /\ 2 * calls[i].x_c <= 2 * H - P
            /\ P \div 2 <= calls[i].y_c /\ 2 * calls[i].y_c <= 2 * W - P

C2_Witness ==
    /\ pc = "done"
    /\ FitsImage
    /\ P % 2 = 1 /\ P > 1
    /\ \E i \in AllCalls : 2 * calls[i].x_c = 2 * H - P - 1
    /\ \E i \in AllCalls : calls[i].x_c = P \div 2

(* C3: when the scan has finished, the detection list holds exactly the    *)
(* centres of the scanned windows whose score is strictly above the        *)
(* threshold; a score equal to or below the threshold is never retained.   *)
C3_ThresholdFilter ==
    (pc = "done") => stomata = CentersAbove(calls)

C3_Witness ==
    /\ pc = "done"
    /\ \E i \in AllCalls : calls[i].score = threshold
    /\ \E i \in AllCalls : calls[i].score > threshold
    /\ \E i \in AllCalls : calls[i].score < threshold
    /\ Len(stomata) = 1

Is240Scenario == H = 240 /\ W = 240 /\ P = 120 /\ S = 120

(* C4 as stated: for a 240x240 image, patch size 120 and step 120 the     *)
(* shift counts are both 0 and the scan classifies exactly one window,     *)
(* centred (60,60).                                                        *)
C4_Scenario240OneWindow ==
    Is240Scenario =>
        /\ ShiftsKnown => (no_x_shifts = 0 /\ no_y_shifts = 0)
        /\ Scanning => \A i \in AllCalls : calls[i].x_c = 60 /\ calls[i].y_c = 60
        /\ pc = "done" => Len(calls) = 1

(* C4 amended: for a 240x240 image, patch size 120 and step 120 the shift  *)
(* counts are both 1, there are two window positions per axis, and the     *)
(* scan classifies exactly four windows, centred (60,60), (60,180),        *)
(* (180,60) and (180,180), in that order.                                  *)
C4_Scenario240FourWindows ==
    Is240Scenario =>
        /\ ShiftsKnown => (no_x_shifts = 1 /\ no_y_shifts = 1)
        /\ Scanning => \A i \in AllCalls :
              <<calls[i].x_c, calls[i].y_c>> =
                  <<(<<60, 60>>), (<<60, 180>>), (<<180, 60>>), (<<180, 180>>)>>[i]
        /\ pc = "done" => Len(calls) = 4

C4_Witness == Is240Scenario /\ pc = "done" /\ Len(calls) = 4

(* C5 as stated: the inclusive loop bound makes a window of the last row   *)
(* or column extend outside the image (x_c + P//2 > H or y_c + P//2 > W),  *)
(* read on a finished scan of an image with H >= P and W >= P.             *)
C5_SomeWindowOverruns ==
    (pc = "done" /\ FitsImage) => \E i \in AllCalls : Overruns(calls[i])

(* C5 amended: for H >= P and W >= P no scanned window extends outside the *)
(* image: x_c + P//2 <= H and y_c + P//2 <= W for every window, the last   *)
(* row and column included.                                                *)
C5_WindowsInsideImage ==
    (Scanning /\ FitsImage) => \A i \in AllCalls : ~Overruns(calls[i])

C5_Witness ==
    /\ pc = "done"
    /\ FitsImage
    /\ P % 2 = 0
    /\ \E i \in AllCalls :
        /\ calls[i].x = no_x_shifts /\ calls[i].y = no_y_shifts
        /\ calls[i].x_c + (P \div 2) = H
        /\ calls[i].y_c + (P \div 2) = W

(* C6: windows are visited in strictly increasing lexicographic order of   *)
(* (x, y), x outer and y inner, and the detection list keeps that order.   *)
C6_RowMajorOrder ==
    Scanning =>
        /\ \A i, j \in AllCalls : i < j => LexLess(calls[i], calls[j])
        /\ \A a, b \in 1..Len(stomata) :
              a < b => CallIndexOf(stomata[a]) < CallIndexOf(stomata[b])
        /\ \A a \in 1..Len(stomata) :
              \E i \in AllCalls : <<calls[i].x_c, calls[i].y_c>> = stomata[a]

C6_Witness ==
    /\ pc = "done"
    /\ Len(stomata) >= 3
    /\ \E i, j \in AllCalls : calls[i].x < calls[j].x /\ calls[i].y > calls[j].y

AllPositionsOnce ==
    /\ \A i \in 0..no_x_shifts : \A j \in 0..no_y_shifts :
          Cardinality({k \in AllCalls : calls[k].x = i /\ calls[k].y = j}) = 1
    /\ \A k \in AllCalls : calls[k].x \in 0..no_x_shifts /\ calls[k].y \in 0..no_y_shifts

(* C7: the scan terminates, and only after exactly one classifier call for *)
(* every position of [0, no_x_shifts] x [0, no_y_shifts], whatever the     *)
(* scores are.                                                             *)
C7_ExhaustiveScan ==
    /\ <>(pc = "done")
    /\ [](pc = "done" => AllPositionsOnce)

C7_Witness ==
    /\ pc = "done"
    /\ Len(calls) >= 4
    /\ calls[1].score > threshold
    /\ calls[2].score < threshold

(* C8: the number of windows the model is applied to equals the announced  *)
(* count no_x_shifts * no_y_shifts.                                        *)
C8_AnnouncedCount ==
    (pc = "done") => Len(calls) = announced

(* C9: every value of the patch handed to the classifier is the 8-bit      *)
(* pixel it was cut from divided by 255 once, and lies in [0, 1], also for *)
(* windows that overlap earlier ones.                                      *)
C9_NormalizedOnce ==
    (Scanning /\ calls # <<>>) =>
        /\ Len(patch) = LastCall.rows
        /\ \A r \in 1..Len(patch) :
            /\ Len(patch[r]) = LastCall.cols
            /\ \A c \in 1..Len(patch[r]) : \A ch \in 1..NChannels :
                LET v == patch[r][c][ch]
                    px == image[LastCall.x * S + r][LastCall.y * S + c][ch]
                IN  /\ px \in 0..255
                    /\ v = [num |-> px, den |-> 255]
                    /\ 0 <= v.num /\ v.num <= v.den

C9_Witness ==
    /\ Scanning
    /\ Len(calls) >= 2
    /\ S < 2 * (P \div 2)
    /\ Len(patch) > 0
    /\ \E r \in 1..Len(patch) : \E c \in 1..Len(patch[r]) : \E ch \in 1..NChannels :
          patch[r][c][ch].num = 255

(* C10: for every positive P and every image with H >= P and W >= P, each  *)
(* patch handed to the classifier has exactly P rows and P columns.        *)
C10_PatchIsPByP ==
    (Scanning /\ FitsImage) =>
        \A i \in AllCalls : calls[i].rows = P /\ calls[i].cols = P

(* C11: when the image height or width is smaller than the patch size, the *)
(* shift count of that axis is negative, the loop body never runs: no      *)
(* window is extracted, the classifier is never called, and the detection  *)
(* list left for clustering is empty.                                      *)
C11_SmallImageNoWindows ==
    /\ (ShiftsKnown /\ H < P) => no_x_shifts < 0
    /\ (ShiftsKnown /\ W < P) => no_y_shifts < 0
    /\ (H < P \/ W < P) =>
          /\ pc # "scan"
          /\ calls = <<>>
          /\ patch = <<>>
          /\ stomata = <<>>

C11_Witness ==
    /\ pc = "done"
    /\ W < P
    /\ H > P
    /\ no_x_shifts >= 1
    /\ no_y_shifts < 0
    /\ stomata = <<>>

=============================================================================
